---- MODULE Spec2Model ----
(***************************************************************************)
(* Allocation-and-simulation engine of the PDS supply-chain simulator:     *)
(*   backend/simulation/allocation_optimizer.py  (AllocationOptimizer)     *)
(*   backend/simulation/scm_simulator.py         (SCMSimulator)            *)
(*   backend/simulation/data_generator.py        (DistrictDataGenerator)   *)
(*                                                                         *)
(* Real numbers are exact rationals <<numerator, denominator>> in lowest   *)
(* terms with a positive denominator, so equality of values is equality of *)
(* tuples.  Per-district arrays are functions over Districts.              *)
(***************************************************************************)
EXTENDS Integers, Sequences, FiniteSets, TLC

\* ------------------------------------------------------------------ bounds
NumDistricts == 3
MaxSeed == 1
\* run() may be called again on an instance: at most MaxRuns calls each
MaxRuns == 1
MaxCost == 2
MaxSeries == 4
\* allocate is called once per period: at most MaxCalls calls in a row
MaxCalls == 2

Districts == 1..NumDistricts

\* ---------------------------------------------------------------- rationals
Abs(n) == IF n < 0 THEN -n ELSE n

RECURSIVE GCD(_, _)
GCD(a, b) == IF b = 0 THEN a ELSE GCD(b, a % b)

Rat(n, d) ==
    LET g == GCD(Abs(n), Abs(d))
        s == IF d < 0 THEN -1 ELSE 1
    IN  <<s * (n \div g), s * (d \div g)>>

R(n) == <<n, 1>>
Zero == <<0, 1>>
One == <<1, 1>>

RAdd(a, b) ==
    LET g == GCD(a[2], b[2])
    IN  Rat(a[1] * (b[2] \div g) + b[1] * (a[2] \div g), (a[2] \div g) * b[2])

RNeg(a) == <<-a[1], a[2]>>
RSub(a, b) == RAdd(a, RNeg(b))

RMul(a, b) ==
    LET g1 == GCD(Abs(a[1]), b[2])
        g2 == GCD(Abs(b[1]), a[2])
    IN  <<(a[1] \div g1) * (b[1] \div g2), (a[2] \div g2) * (b[2] \div g1)>>

RInv(a) == IF a[1] < 0 THEN <<-a[2], -a[1]>> ELSE <<a[2], a[1]>>
RDiv(a, b) == RMul(a, RInv(b))

\* n1/d1 < n2/d2 for d1, d2 > 0, by integer parts and then the reciprocals of
\* the fractional parts (no cross product is formed)
RECURSIVE FracLess(_, _, _, _)
FracLess(n1, d1, n2, d2) ==
    IF n1 \div d1 # n2 \div d2 THEN n1 \div d1 < n2 \div d2
    ELSE IF n2 % d2 = 0 THEN FALSE
    ELSE IF n1 % d1 = 0 THEN TRUE
    ELSE FracLess(d2, n2 % d2, d1, n1 % d1)

RLt(a, b) == FracLess(a[1], a[2], b[1], b[2])
RLe(a, b) == ~RLt(b, a)
RMax(a, b) == IF RLt(a, b) THEN b ELSE a
RMin(a, b) == IF RLt(b, a) THEN b ELSE a

\* An array built once: the comparison makes the evaluator tabulate the
\* function instead of recomputing an entry at every access.
Arr(f) == IF f = f THEN f ELSE f

\* An assignment: v is computed, once, before the statements F that read it.
With(v, F(_)) == CASE v = v -> F(v)

\* np.clip(v, lo, hi)
Clip(v, lo, hi) == RMin(RMax(v, lo), hi)

\* ndarray.sum() over the district axis
RECURSIVE SumTo(_, _)
SumTo(v, n) == IF n = 0 THEN Zero ELSE RAdd(SumTo(v, n - 1), v[n])
VSum(v) == SumTo(v, NumDistricts)

\* ndarray.max()
RECURSIVE MaxTo(_, _)
MaxTo(v, n) == IF n = 1 THEN v[1] ELSE RMax(MaxTo(v, n - 1), v[n])
VMax(v) == MaxTo(v, NumDistricts)

\* ------------------------------------------------- AllocationOptimizer
\* The optimizer's parameters (AllocationOptimizer.__init__) as a record:
\* alpha, beta, gamma, stockout_penalty, inspection_cost, max_ratio,
\* inspection_threshold.

Policies == {"proportional", "optimized", "equity_first", "risk_averse"}

\* mutant: the supply is split equally whatever the demand
PolicyEqualSplit(demand_mean, supply_total) ==
    [i \in Districts |-> RDiv(supply_total, R(NumDistricts))]

\* _policy_proportional
\* mutant: nothing is allocated when the total demand is zero
PolicyProportionalNoDemand(demand_mean, supply_total) ==
    LET total_demand == VSum(demand_mean)
    IN  IF RLe(total_demand, Zero)
        THEN [i \in Districts |-> Zero]
        ELSE [i \in Districts |-> RMul(RDiv(demand_mean[i], total_demand), supply_total)]

PolicyProportional(demand_mean, supply_total) ==
    LET total_demand == VSum(demand_mean)
    IN  IF RLe(total_demand, Zero)
        THEN [i \in Districts |-> RDiv(supply_total, R(NumDistricts))]
        ELSE [i \in Districts |-> RMul(RDiv(demand_mean[i], total_demand), supply_total)]

\* max_alloc = max_ratio * np.maximum(demand, 1.0)
MaxAlloc(opt, demand) ==
    [i \in Districts |-> RMul(opt.max_ratio, RMax(demand[i], One))]

\* np.maximum(demand - inventory, 0.0): the stockout-cover right-hand side
Shortfall(demand, inventory) ==
    [i \in Districts |-> RMax(RSub(demand[i], inventory[i]), Zero)]

\* scipy.optimize.linprog(c_obj, A_ub, b_ub, bounds, method="highs") on the
\* program both LP policies build:
\*    minimise   sum_i  w[i]*x[i] + b[i]*s[i]
\*    subject to x[i] + s[i] >= r[i],   sum_i x[i] <= supply,
\*               0 <= x[i] <= ub[i],    s[i] >= 0
\* with w, b, r >= 0.  At an optimum s[i] = max(0, r[i] - x[i]), so a unit of
\* x[i] below min(r[i], ub[i]) changes the objective by w[i] - b[i] and a unit
\* above it by w[i] >= 0: the optimum fills the districts in descending order
\* of b[i] - w[i] while that gain is positive and supply is left.  The program
\* is infeasible exactly when supply < 0.  Among equal gains the lower index is
\* served first.
LPGain(w, b, i) == RSub(b[i], w[i])

LPBest(w, b, todo) ==
    CHOOSE i \in todo : \A j \in todo :
        \/ RLt(LPGain(w, b, j), LPGain(w, b, i))
        \/ (LPGain(w, b, j) = LPGain(w, b, i) /\ i <= j)

RECURSIVE LPFill(_, _, _, _, _, _, _)
LPFill(w, b, r, ub, left, todo, x) ==
    IF todo = {} THEN x
    ELSE LET i == LPBest(w, b, todo)
             take == IF RLt(Zero, LPGain(w, b, i))
                     THEN RMin(RMin(r[i], ub[i]), left)
                     ELSE Zero
         IN  LPFill(w, b, r, ub, RSub(left, take), todo \ {i}, [x EXCEPT ![i] = take])

Linprog(w, b, r, ub, supply) ==
    IF RLt(supply, Zero)
    THEN [success |-> FALSE, x |-> [i \in Districts |-> Zero]]
    ELSE [success |-> TRUE,
          x |-> LPFill(Arr(w), Arr(b), Arr(r), Arr(ub), supply, Districts,
                       [i \in Districts |-> Zero])]

\* c_max = max(transport_cost.max(), 1e-9); transport_cost / c_max.
\* The 1e-9 floor only keeps the division defined when every cost is 0.
NormCost(transport_cost, i) ==
    IF RLt(Zero, VMax(transport_cost))
    THEN RDiv(transport_cost[i], VMax(transport_cost))
    ELSE Zero

\* _policy_lp: objective and constraints of the "optimized" policy
LPOptimized(opt, inventory, demand_mean, fraud_prob, transport_cost, supply_total) ==
    Linprog([i \in Districts |->
                RAdd(RMul(opt.alpha, NormCost(transport_cost, i)),
                     RMul(opt.gamma, fraud_prob[i]))],
            [i \in Districts |-> opt.beta],
            Shortfall(demand_mean, inventory),
            MaxAlloc(opt, demand_mean),
            supply_total)

\* What scipy does in one call of a policy: "available" (the import works and
\* HiGHS solves every feasible program), "missing" (the import raises
\* ImportError) or "failing" (the import works and HiGHS gives up: iteration
\* limit, numerical trouble).
ScipyStates == {"available", "missing", "failing"}

\* result = linprog(...): the solver's result as the policy reads it
LinprogResult(scipy, answer) ==
    IF scipy = "failing" THEN [answer EXCEPT !.success = FALSE] ELSE answer

\* mutant: result.x is returned whether or not the solver succeeded
PolicyLPNoFallback(opt, scipy, inventory, demand_mean, fraud_prob, transport_cost, supply_total) ==
    IF scipy = "missing" THEN PolicyProportional(demand_mean, supply_total)
    ELSE LPOptimized(opt, inventory, demand_mean, fraud_prob, transport_cost,
                     supply_total).x

PolicyLP(opt, scipy, inventory, demand_mean, fraud_prob, transport_cost, supply_total) ==
    IF scipy = "missing" THEN PolicyProportional(demand_mean, supply_total)
    ELSE LET result == LinprogResult(scipy,
                           LPOptimized(opt, inventory, demand_mean, fraud_prob,
                                       transport_cost, supply_total))
         IN  IF result.success THEN result.x
             ELSE PolicyProportional(demand_mean, supply_total)

\* mutant: the coverage ratio is taken against the total demand
EquityTauOfDemand(inventory, demand_mean, supply_total) ==
    RMin(One, RDiv(supply_total, VSum(demand_mean)))

\* _policy_equity, before the leftover is distributed:
\* tau = min(1, supply/total_shortfall); x = max(0, tau*demand - inventory)
EquityTau(inventory, demand_mean, supply_total) ==
    RMin(One, RDiv(supply_total, VSum(Shortfall(demand_mean, inventory))))

EquityBase(inventory, demand_mean, supply_total) ==
    LET tau == EquityTau(inventory, demand_mean, supply_total)
    IN  [i \in Districts |-> RMax(Zero, RSub(RMul(tau, demand_mean[i]), inventory[i]))]

\* _policy_equity
PolicyEquity(inventory, demand_mean, supply_total) ==
    IF RLe(VSum(Shortfall(demand_mean, inventory)), Zero)
    THEN [i \in Districts |-> RDiv(supply_total, R(NumDistricts))]
    ELSE LET x == Arr(EquityBase(inventory, demand_mean, supply_total))
             leftover == RMax(Zero, RSub(supply_total, VSum(x)))
         IN  [i \in Districts |-> RAdd(x[i], RDiv(leftover, R(NumDistricts)))]

\* z_alpha = 1.645
ZAlpha == <<329, 200>>

\* effective_demand = demand_mean + z_alpha * demand_std
EffectiveDemand(demand_mean, demand_std) ==
    [i \in Districts |-> RAdd(demand_mean[i], RMul(ZAlpha, demand_std[i]))]

\* cv = np.where(demand_mean > 0, demand_std / demand_mean, 0.0)
CoefVar(demand_mean, demand_std, i) ==
    IF RLt(Zero, demand_mean[i]) THEN RDiv(demand_std[i], demand_mean[i]) ELSE Zero

\* _policy_risk_averse: objective and constraints
LPRiskAverse(opt, inventory, demand_mean, demand_std, fraud_prob, transport_cost, supply_total) ==
    Linprog([i \in Districts |->
                RAdd(RMul(opt.alpha, transport_cost[i]),
                     RMul(opt.gamma, fraud_prob[i]))],
            [i \in Districts |->
                RMul(RMul(opt.beta, RAdd(One, CoefVar(demand_mean, demand_std, i))),
                     opt.stockout_penalty)],
            Shortfall(EffectiveDemand(demand_mean, demand_std), inventory),
            MaxAlloc(opt, EffectiveDemand(demand_mean, demand_std)),
            supply_total)

PolicyRiskAverse(opt, scipy, inventory, demand_mean, demand_std, fraud_prob, transport_cost, supply_total) ==
    IF scipy = "missing" THEN PolicyProportional(demand_mean, supply_total)
    ELSE LET result == LinprogResult(scipy,
                           LPRiskAverse(opt, inventory, demand_mean, demand_std,
                                        fraud_prob, transport_cost, supply_total))
         IN  IF result.success THEN result.x
             ELSE PolicyProportional(demand_mean, supply_total)

\* allocate, lines 82-97: the policy dispatch.  An unrecognised policy string
\* takes the else branch.
PolicyOutput(opt, scipy, inventory, demand_mean, demand_std, fraud_prob, transport_cost, supply_total, policy) ==
    CASE policy = "proportional" -> PolicyProportional(demand_mean, supply_total)
      [] policy = "optimized" ->
            PolicyLP(opt, scipy, inventory, demand_mean, fraud_prob, transport_cost,
                     supply_total)
      [] policy = "equity_first" -> PolicyEquity(inventory, demand_mean, supply_total)
      [] policy = "risk_averse" ->
            PolicyRiskAverse(opt, scipy, inventory, demand_mean, demand_std,
                             fraud_prob, transport_cost, supply_total)
      [] OTHER -> PolicyProportional(demand_mean, supply_total)

\* mutant: the upper bound of the clip is dropped
ClipLowerOnly(opt, demand_mean, x) ==
    [i \in Districts |-> RMax(x[i], Zero)]

\* x = np.clip(x, 0.0, max_alloc)
ClipToMaxAlloc(opt, demand_mean, x) ==
    LET max_alloc == Arr(MaxAlloc(opt, demand_mean))
    IN  [i \in Districts |-> Clip(x[i], Zero, max_alloc[i])]

\* mutant: no renormalisation
RenormaliseNever(x, supply_total) == x

\* if total > supply_total and total > 0: x = x * supply_total / total
Renormalise(x, supply_total) ==
    LET total == VSum(x)
    IN  IF RLt(supply_total, total) /\ RLt(Zero, total)
        THEN [i \in Districts |-> RDiv(RMul(x[i], supply_total), total)]
        ELSE x

\* allocate, lines 78-105: the allocation vector x it returns.  fp_err is the
\* floating-point rounding error carried by the policy's result (0 in exact
\* arithmetic); the clip and the renormalisation act on the rounded vector.
Allocation(opt, scipy, inventory, demand_mean, demand_std, fraud_prob, transport_cost, supply_total, policy, fp_err) ==
    With(PolicyOutput(opt, scipy, inventory, demand_mean, demand_std,
                      fraud_prob, transport_cost, supply_total, policy), LAMBDA raw :
    With([i \in Districts |-> RAdd(raw[i], fp_err)], LAMBDA x :
    With(ClipToMaxAlloc(opt, demand_mean, x), LAMBDA clipped :
    Arr(Renormalise(clipped, supply_total)))))

\* mutant: the comparison with the threshold is reversed
MandatoryBelow(opt, fraud_prob) ==
    {i \in Districts : RLt(fraud_prob[i], opt.inspection_threshold)}

\* mandatory = fraud_prob > self.inspection_threshold
Mandatory(opt, fraud_prob) ==
    {i \in Districts : RLt(opt.inspection_threshold, fraud_prob[i])}

\* roi = np.where(allocation > 0, p*x / (inspection_cost + c*x + 1e-9), 0.0);
\* roi[mandatory] = -inf.  A key <<class, value>> ordered lexicographically:
\* class 0 is -inf, class 1 is roi = 0, class 2 is p*x/(kappa + c*x) and class 3
\* is the case kappa + c*x = 0, where the 1e-9 alone divides p*x.
RoiKey(opt, fraud_prob, allocation, transport_cost, i) ==
    LET num == RMul(fraud_prob[i], allocation[i])
        den == RAdd(opt.inspection_cost, RMul(transport_cost[i], allocation[i]))
    IN  IF i \in Mandatory(opt, fraud_prob) THEN <<0, Zero>>
        ELSE IF ~RLt(Zero, allocation[i]) \/ ~RLt(Zero, num) THEN <<1, Zero>>
        ELSE IF RLt(Zero, den) THEN <<2, RDiv(num, den)>>
        ELSE <<3, num>>

RoiLess(a, b) == a[1] < b[1] \/ (a[1] = b[1] /\ RLt(a[2], b[2]))

\* mutant: ascending roi
RECURSIVE ArgsortAsc(_, _)
ArgsortAsc(key, todo) ==
    IF todo = {} THEN <<>>
    ELSE LET i == CHOOSE a \in todo : \A b \in todo :
                      RoiLess(key[a], key[b]) \/ (key[b] = key[a] /\ a <= b)
         IN  <<i>> \o ArgsortAsc(key, todo \ {i})

\* order = np.argsort(-roi): descending roi, equal keys in index order
RECURSIVE ArgsortDesc(_, _)
ArgsortDesc(key, todo) ==
    IF todo = {} THEN <<>>
    ELSE LET i == CHOOSE a \in todo : \A b \in todo :
                      RoiLess(key[b], key[a]) \/ (key[b] = key[a] /\ a <= b)
         IN  <<i>> \o ArgsortDesc(key, todo \ {i})

\* mutant: the loop does not stop when the budget would be exceeded
RECURSIVE InspectLoopNoBudget(_, _, _, _, _, _, _)
InspectLoopNoBudget(opt, key, order, k, budget_used, budget, y) ==
    IF k > Len(order) THEN y
    ELSE IF key[order[k]][1] <= 1 THEN y
    ELSE InspectLoopNoBudget(opt, key, order, k + 1,
                             RAdd(budget_used, opt.inspection_cost), budget,
                             [y EXCEPT ![order[k]] = 1])

\* for i in order: break on roi <= 0, break when the budget would be exceeded
RECURSIVE InspectLoop(_, _, _, _, _, _, _)
InspectLoop(opt, key, order, k, budget_used, budget, y) ==
    IF k > Len(order) THEN y
    ELSE IF key[order[k]][1] <= 1 THEN y
    ELSE IF RLt(budget, RAdd(budget_used, opt.inspection_cost)) THEN y
    ELSE InspectLoop(opt, key, order, k + 1, RAdd(budget_used, opt.inspection_cost),
                     budget, [y EXCEPT ![order[k]] = 1])

\* mutant: the mandatory districts are not marked, only the greedy phase runs
DecideInspectionsRoiOnly(opt, fraud_prob, allocation, transport_cost, budget) ==
    LET key == Arr([i \in Districts |->
                       RoiKey(opt, fraud_prob, allocation, transport_cost, i)])
    IN  InspectLoop(opt, key, ArgsortDesc(key, Districts), 1, Zero, budget,
                    [i \in Districts |-> 0])

\* _decide_inspections
DecideInspections(opt, fraud_prob, allocation, transport_cost, budget) ==
    LET mandatory == Mandatory(opt, fraud_prob)
        key == Arr([i \in Districts |->
                       RoiKey(opt, fraud_prob, allocation, transport_cost, i)])
    IN  InspectLoop(opt, key, ArgsortDesc(key, Districts), 1,
                    RMul(R(Cardinality(mandatory)), opt.inspection_cost), budget,
                    [i \in Districts |-> IF i \in mandatory THEN 1 ELSE 0])

\* ------------------------------------------------------------------ state
\* call, ret, pc: one call of a function of the engine (its arguments, its
\* result, and whether it has returned).
\* call, ret, pc   : one call of a function taken on its own (arguments,
\*                    returned value, position)
\* scipy_ok        : what `from scipy.optimize import linprog` and the solver do
\* registry        : the district registry the data generator reads
\* sims            : the SCMSimulator instances of the process
VARIABLES call, ret, pc, scipy_ok, registry, sims

vars == <<call, ret, pc, scipy_ok, registry, sims>>

\* The simulator instances a process holds.
Sims == {"a", "b"}

NoCall == [fn |-> "none"]
NoRegistry == [i \in Districts |-> [fraud_seed |-> Zero]]
NoSims == [s \in Sims |-> [status |-> "absent"]]

\* No simulator exists while a function is exercised on its own.
SimIdle == scipy_ok = "available" /\ registry = NoRegistry /\ sims = NoSims

\* SimulationConfig defaults handed to AllocationOptimizer.__init__
DefaultOpt ==
    [alpha |-> <<1, 4>>, beta |-> <<7, 20>>, gamma |-> <<1, 4>>,
     stockout_penalty |-> R(50), inspection_cost |-> R(5000),
     max_ratio |-> R(2), inspection_threshold |-> <<13, 20>>]

\* _build_demand_profiles: demand_std = mu * 0.15
DemandCV == <<3, 20>>

\* Per-district input vectors: one value for district 1, one for the others.
VecFamily(vals) ==
    {[i \in Districts |-> IF i = 1 THEN a ELSE b] : a \in vals, b \in vals}

NoVec == [i \in Districts |-> Zero]

\* ------------------------------------------- one call of allocate
AllocArgs ==
    [fn : {"allocate"},
     opt : {DefaultOpt},
     scipy : {"available", "missing"},
     inventory : VecFamily({R(0), R(150)}),
     demand_mean : VecFamily({R(0), R(50), R(100)}),
     fraud_prob : VecFamily({<<1, 10>>, <<9, 10>>}),
     transport_cost : {[i \in Districts |-> R(1)],
                       [i \in Districts |-> IF i = 1 THEN R(3) ELSE R(1)]},
     supply_total : {R(0), R(3), R(150), R(400)},
     budget : {R(0), R(50000000)},
     policy : Policies \cup {"unrecognised"},
     fp_err : {<<-1, 100>>, Zero, <<1, 100>>}]

LPPolicies == {"optimized", "risk_averse"}

\* Arguments the selected policy does not read are held at one value; the
\* empty budget is exercised on exact policy outputs.
AllocCalls ==
    {c \in AllocArgs :
        /\ c.policy \notin LPPolicies =>
              /\ c.scipy = "available"
              /\ c.fraud_prob = [i \in Districts |-> IF i = 1 THEN <<9, 10>> ELSE <<1, 10>>]
              /\ c.transport_cost = [i \in Districts |-> R(1)]
        /\ c.budget = Zero => c.fp_err = Zero}

DemandStd(demand_mean) == [i \in Districts |-> RMul(demand_mean[i], DemandCV)]

\* allocate: returns (x, y)
Allocate(c) ==
    LET x == Allocation(c.opt, c.scipy, c.inventory, c.demand_mean,
                        DemandStd(c.demand_mean), c.fraud_prob, c.transport_cost,
                        c.supply_total, c.policy, c.fp_err)
    IN  [x |-> x,
         y |-> DecideInspections(c.opt, c.fraud_prob, x, c.transport_cost, c.budget)]

InitAlloc ==
    /\ SimIdle
    /\ call \in AllocCalls
    /\ ret = [x |-> NoVec, y |-> [i \in Districts |-> 0]]
    /\ pc = "call"

CallAllocate ==
    /\ pc = "call"
    /\ call.fn = "allocate"
    /\ ret' = Allocate(call)
    /\ pc' = "return"
    /\ UNCHANGED <<call, scipy_ok, registry, sims>>

NextAlloc == CallAllocate

SpecAlloc == InitAlloc /\ [][NextAlloc]_vars

\* ------------------------------------------------ claims about allocate
Returned == pc = "return"
AllocReturned == Returned /\ call.fn = "allocate"

\* what allocate holds after line 97 and after line 101
CallRaw ==
    LET raw == Arr(PolicyOutput(call.opt, call.scipy, call.inventory, call.demand_mean, DemandStd(call.demand_mean), call.fraud_prob, call.transport_cost, call.supply_total, call.policy))
    IN  [i \in Districts |-> RAdd(raw[i], call.fp_err)]
CallClipped == ClipToMaxAlloc(call.opt, call.demand_mean, Arr(CallRaw))
ClipTriggered == Arr(CallClipped) # Arr(CallRaw)
RenormTriggered == RLt(call.supply_total, VSum(Arr(CallClipped)))

\* max_allocation_ratio * max(demand_mean_i, 1), written out
UpperBound(i) ==
    IF RLt(One, call.demand_mean[i])
    THEN RMul(call.opt.max_ratio, call.demand_mean[i])
    ELSE call.opt.max_ratio

\* C1: for every policy value (the four named ones and an unrecognised
\* string), every district's returned allocation satisfies
\* 0 <= allocation_i <= max_allocation_ratio * max(demand_mean_i, 1).
C1_AllocationWithinBounds ==
    AllocReturned =>
        \A i \in Districts : RLe(Zero, ret.x[i]) /\ RLe(ret.x[i], UpperBound(i))

\* an unrecognised policy whose result the clip cut down to the upper bound
C1_Witness ==
    /\ AllocReturned
    /\ call.policy = "unrecognised"
    /\ \E i \in Districts : RLt(UpperBound(i), CallRaw[i]) /\ ret.x[i] = UpperBound(i)

\* C2: the returned allocations sum to at most the period's supply, and a
\* clipped policy output that sums to more than the supply is scaled down to
\* exactly the supply.
C2_SumWithinSupply ==
    AllocReturned =>
        /\ RLe(VSum(ret.x), call.supply_total)
        /\ RenormTriggered => VSum(ret.x) = call.supply_total

\* a clipped output above a positive supply, scaled down
C2_Witness ==
    /\ AllocReturned
    /\ RenormTriggered
    /\ RLt(Zero, call.supply_total)
    /\ VSum(ret.x) = call.supply_total
    /\ ret.x # Arr(CallClipped)

\* C7: Proportional policy in exact arithmetic, clip and renormalisation not
\* triggered: allocation_i = supply_total * demand_mean_i / sum(demand_mean)
\* (so the allocations sum to supply_total), supply_total / N each when the
\* total demand is zero, and [100,100,100] with supply 150 gives [50,50,50].
C7_Proportional ==
    (/\ AllocReturned
     /\ call.policy = "proportional"
     /\ call.fp_err = Zero
     /\ ~ClipTriggered
     /\ ~RenormTriggered) =>
        /\ RLt(Zero, VSum(call.demand_mean)) =>
              /\ \A i \in Districts :
                    RMul(ret.x[i], VSum(call.demand_mean))
                        = RMul(call.supply_total, call.demand_mean[i])
              /\ VSum(ret.x) = call.supply_total
        /\ VSum(call.demand_mean) = Zero =>
              \A i \in Districts : RMul(ret.x[i], R(NumDistricts)) = call.supply_total
        /\ (/\ NumDistricts = 3
            /\ call.demand_mean = [i \in Districts |-> R(100)]
            /\ call.supply_total = R(150)) =>
              ret.x = [i \in Districts |-> R(50)]

\* Scenario A has been allocated
C7_Witness ==
    /\ AllocReturned
    /\ call.policy = "proportional"
    /\ call.fp_err = Zero
    /\ ~ClipTriggered /\ ~RenormTriggered
    /\ NumDistricts = 3
    /\ call.demand_mean = [i \in Districts |-> R(100)]
    /\ call.inventory = NoVec
    /\ call.supply_total = R(150)
    /\ ret.x = [i \in Districts |-> R(50)]

\* C8: Equity-First in exact arithmetic: when supply_total covers the total
\* shortfall sum_i max(0, demand_mean_i - inventory_i), every district has
\* inventory_i + allocation_i >= demand_mean_i, before the leftover is
\* distributed and in the allocation allocate returns.
C8_EquityCoverage ==
    (/\ AllocReturned
     /\ call.policy = "equity_first"
     /\ call.fp_err = Zero
     /\ RLe(VSum(Shortfall(call.demand_mean, call.inventory)), call.supply_total)) =>
        /\ RLt(Zero, VSum(Shortfall(call.demand_mean, call.inventory))) =>
              \A i \in Districts :
                  RLe(call.demand_mean[i],
                      RAdd(call.inventory[i],
                           EquityBase(call.inventory, call.demand_mean, call.supply_total)[i]))
        /\ \A i \in Districts :
              RLe(call.demand_mean[i], RAdd(call.inventory[i], ret.x[i]))

\* a positive shortfall, covered, with leftover supply distributed
C8_Witness ==
    /\ AllocReturned
    /\ call.policy = "equity_first"
    /\ call.fp_err = Zero
    /\ RLt(Zero, VSum(Shortfall(call.demand_mean, call.inventory)))
    /\ RLt(VSum(Shortfall(call.demand_mean, call.inventory)), call.supply_total)
    /\ \E i \in Districts : RLt(Zero, call.inventory[i]) /\ RLt(Zero, ret.x[i])
    /\ \A i \in Districts : RLe(call.demand_mean[i], RAdd(call.inventory[i], ret.x[i]))

\* C12: for every policy and every budget, zero included, every district
\* whose fraud_prob is strictly above inspection_threshold has inspect_i = 1 in
\* the vector allocate returns, and every entry of that vector is 0 or 1.
C12_MandatoryInspections ==
    AllocReturned =>
        /\ \A i \in Districts :
              RLt(call.opt.inspection_threshold, call.fraud_prob[i]) => ret.y[i] = 1
        /\ \A i \in Districts : ret.y[i] \in {0, 1}

\* an empty budget: a district above the threshold is inspected while a
\* district below it, with a positive allocation, is not
C12_Witness ==
    /\ AllocReturned
    /\ call.budget = Zero
    /\ \E i \in Districts :
          RLt(call.opt.inspection_threshold, call.fraud_prob[i]) /\ ret.y[i] = 1
    /\ \E j \in Districts :
          /\ RLt(call.fraud_prob[j], call.opt.inspection_threshold)
          /\ RLt(Zero, ret.x[j])
          /\ ret.y[j] = 0

\* ------------------------- allocate called period after period
\* The period loop calls allocate once per period on the same optimizer with
\* the configured policy.  Each call imports scipy anew and runs the solver
\* anew: whether the import succeeds, and the supply the solver is given, are
\* inputs of each call.  fell_back records that an earlier call of the
\* sequence used the fallback.
FallbackArgs ==
    [fn : {"allocate"},
     opt : {DefaultOpt},
     scipy : ScipyStates,
     inventory : VecFamily({R(0), R(150)}),
     demand_mean : VecFamily({R(50), R(100)}),
     fraud_prob : VecFamily({<<1, 10>>, <<9, 10>>}),
     transport_cost : {[i \in Districts |-> R(1)],
                       [i \in Districts |-> IF i = 1 THEN R(3) ELSE R(1)]},
     supply_total : {R(-1), R(3), R(150)},
     budget : {R(50000000)},
     policy : LPPolicies,
     fp_err : {Zero},
     period : {0},
     fell_back : {FALSE}]

\* the import failed, or linprog returned success = False: HiGHS gave up, or
\* the program is infeasible (the supply row cannot be met with x >= 0)
SolverFailed(c) == c.scipy # "available" \/ RLt(c.supply_total, Zero)

InitFallback ==
    /\ SimIdle
    /\ call \in FallbackArgs
    /\ ret = [x |-> NoVec, y |-> [i \in Districts |-> 0]]
    /\ pc = "call"

\* the loop goes on to the next period and calls allocate again
NextPeriodCall ==
    /\ pc = "return"
    /\ call.fn = "allocate"
    /\ call.period < MaxCalls - 1
    /\ \E scipy \in ScipyStates, supply \in {R(-1), R(3), R(150)} :
          call' = [call EXCEPT !.period = @ + 1,
                               !.scipy = scipy,
                               !.supply_total = supply,
                               !.fell_back = @ \/ SolverFailed(call)]
    /\ pc' = "call"
    /\ UNCHANGED <<ret, scipy_ok, registry, sims>>

NextFallback == CallAllocate \/ NextPeriodCall

SpecFallback == InitFallback /\ [][NextFallback]_vars

\* what the clip and the renormalisation of allocate make of a policy output
ClippedRenormalised(c, raw) ==
    Renormalise(Arr(ClipToMaxAlloc(c.opt, c.demand_mean, Arr(raw))), c.supply_total)

CallProportional == ClippedRenormalised(call, PolicyProportional(call.demand_mean, call.supply_total))

\* the solver's own answer for the configured policy
CallSolverAnswer ==
    IF call.policy = "optimized"
    THEN LPOptimized(call.opt, call.inventory, call.demand_mean, call.fraud_prob,
                     call.transport_cost, call.supply_total)
    ELSE LPRiskAverse(call.opt, call.inventory, call.demand_mean,
                      DemandStd(call.demand_mean), call.fraud_prob,
                      call.transport_cost, call.supply_total)

\* C13: under Optimized and Risk-Averse, when scipy cannot be imported or the
\* solver does not succeed, allocate does not raise: it returns the
\* Proportional allocation, clipped and renormalised like any other, for that
\* call only.  The loop goes on, and a later call in which the solver works
\* returns the configured policy's solution again.  (ImportError is caught
\* and an unsuccessful result is tested, so every call reaches its return.)
C13_LPFallback ==
    (AllocReturned /\ call.policy \in LPPolicies) =>
        IF SolverFailed(call)
        THEN ret.x = CallProportional
        ELSE ret.x = ClippedRenormalised(call, CallSolverAnswer.x)

\* the first call fell back; the second call's solver succeeded and its
\* solution, not the Proportional allocation, is returned
C13_Witness ==
    /\ AllocReturned
    /\ call.policy \in LPPolicies
    /\ call.period = 1
    /\ call.fell_back
    /\ ~SolverFailed(call)
    /\ ret.x # CallProportional
    /\ ret.x = ClippedRenormalised(call, CallSolverAnswer.x)

\* ------------------------------------ the two linear programs compared
\* The program C23 describes for the risk-averse policy: the objective of
\* LPOptimized (transport cost divided by c_max, stockout weight without the
\* rupee penalty) with beta_i = beta * (1 + cv_i), the shortfall taken against
\* demand_mean + 1.645 * demand_std, and the upper bounds ub.
RiskAverseAsOptimized(c, ub) ==
    Linprog([i \in Districts |->
                RAdd(RMul(c.opt.alpha, NormCost(c.transport_cost, i)),
                     RMul(c.opt.gamma, c.fraud_prob[i]))],
            [i \in Districts |->
                RMul(c.opt.beta,
                     RAdd(One, CoefVar(c.demand_mean, DemandStd(c.demand_mean), i)))],
            Shortfall(EffectiveDemand(c.demand_mean, DemandStd(c.demand_mean)),
                      c.inventory),
            ub,
            c.supply_total)

RiskAverseCall ==
    /\ pc = "return"
    /\ call.fn = "allocate"
    /\ call.policy = "risk_averse"
    /\ call.scipy = "available"
    /\ call.fp_err = Zero

\* C23: the risk-averse policy returns the solution of the Optimized program
\* with only the demand target and the stockout weight replaced: objective
\* sum (alpha*c_i/c_max + gamma*p_i)*x_i + beta*(1+cv_i)*s_i, the upper bounds
\* being those of Optimized or the same bounds taken on the new demand target.
C23_SameProgram ==
    RiskAverseCall =>
        \/ ret.x = ClippedRenormalised(call,
                      RiskAverseAsOptimized(call, MaxAlloc(call.opt, call.demand_mean)).x)
        \/ ret.x = ClippedRenormalised(call,
                      RiskAverseAsOptimized(call,
                          MaxAlloc(call.opt,
                                   EffectiveDemand(call.demand_mean,
                                                   DemandStd(call.demand_mean)))).x)

\* alpha * (c_i / c_max) + gamma * p_i: what one kilogram allocated to
\* district i adds to the Optimized objective
AllocWeight(c, i) ==
    RAdd(RMul(c.opt.alpha, NormCost(c.transport_cost, i)),
         RMul(c.opt.gamma, c.fraud_prob[i]))

OptimizedCall ==
    /\ pc = "return"
    /\ call.fn = "allocate"
    /\ call.policy = "optimized"
    /\ call.scipy = "available"
    /\ call.fp_err = Zero

\* C24: in the Optimized program beta exceeds alpha*c_i/c_max + gamma*p_i for
\* every district, and whenever supply_total covers the total shortfall every
\* district with a positive shortfall max(0, demand_mean_i - inventory_i) is
\* allocated at least that shortfall.
C24_PrefersToAllocate ==
    OptimizedCall =>
        /\ \A i \in Districts : RLt(AllocWeight(call, i), call.opt.beta)
        /\ RLe(VSum(Shortfall(call.demand_mean, call.inventory)), call.supply_total) =>
              \A i \in Districts :
                  RLt(Zero, Shortfall(call.demand_mean, call.inventory)[i]) =>
                      RLe(Shortfall(call.demand_mean, call.inventory)[i], ret.x[i])

\* ----------------------------------- one call of _decide_inspections
InspectCalls ==
    [fn : {"decide_inspections"},
     opt : {[DefaultOpt EXCEPT !.inspection_cost = k, !.inspection_threshold = th] :
                k \in {R(0), R(5000)}, th \in {<<13, 20>>, <<11, 10>>}},
     fraud_prob : VecFamily({Zero, <<1, 10>>, <<9, 10>>}),
     allocation : VecFamily({R(0), R(50), R(100)}),
     transport_cost : VecFamily({R(1), R(3)}),
     budget : {R(0), R(5000), R(10000), R(50000000)}]

InitInspect ==
    /\ SimIdle
    /\ call \in InspectCalls
    /\ ret = [y |-> [i \in Districts |-> 0]]
    /\ pc = "call"

CallDecideInspections ==
    /\ pc = "call"
    /\ call.fn = "decide_inspections"
    /\ ret' = [y |-> DecideInspections(call.opt, call.fraud_prob, call.allocation,
                                        call.transport_cost, call.budget)]
    /\ pc' = "return"
    /\ UNCHANGED <<call, scipy_ok, registry, sims>>

NextInspect == CallDecideInspections

SpecInspect == InitInspect /\ [][NextInspect]_vars

\* ------------------------------------------------------------- CVaR
\* np.sort(period_costs)
RECURSIVE Insert(_, _)
Insert(sorted, v) ==
    IF sorted = <<>> THEN <<v>>
    ELSE IF RLe(v, Head(sorted)) THEN <<v>> \o sorted
    ELSE <<Head(sorted)>> \o Insert(Tail(sorted), v)

RECURSIVE SortAsc(_)
SortAsc(costs) ==
    IF costs = <<>> THEN <<>> ELSE Insert(SortAsc(Tail(costs)), Head(costs))

RECURSIVE SeqSum(_)
SeqSum(q) == IF q = <<>> THEN Zero ELSE RAdd(Head(q), SeqSum(Tail(q)))

\* np.mean
Mean(q) == RDiv(SeqSum(q), R(Len(q)))

\* int(np.ceil(v)) for v >= 0
Ceil(v) == -((-v[1]) \div v[2])

\* cvar_idx = int(np.ceil(cfg.cvar_confidence * T))
CVaRIdx(confidence, T) == Ceil(RMul(confidence, R(T)))

\* mutant: the mean of the costs below the quantile
CVaRLowerTail(period_costs, confidence) ==
    LET sorted_costs == SortAsc(period_costs)
        T == Len(period_costs)
        cvar_idx == CVaRIdx(confidence, T)
    IN  IF cvar_idx < T /\ cvar_idx > 0
        THEN Mean(SubSeq(sorted_costs, 1, cvar_idx))
        ELSE sorted_costs[1]

\* cvar = mean(sorted_costs[cvar_idx:]) if cvar_idx < T else sorted_costs[-1]
CVaR(period_costs, confidence) ==
    LET sorted_costs == SortAsc(period_costs)
        T == Len(period_costs)
        cvar_idx == CVaRIdx(confidence, T)
    IN  IF cvar_idx < T
        THEN Mean(SubSeq(sorted_costs, cvar_idx + 1, T))
        ELSE sorted_costs[T]

RECURSIVE SeqsUpTo(_, _)
SeqsUpTo(vals, n) ==
    IF n = 0 THEN {<<>>}
    ELSE SeqsUpTo(vals, n - 1)
         \cup {Append(q, v) : q \in {r \in SeqsUpTo(vals, n - 1) : Len(r) = n - 1}, v \in vals}

CVaRCalls ==
    [fn : {"cvar"},
     period_costs : SeqsUpTo({R(k) : k \in 0..MaxCost}, MaxSeries) \ {<<>>},
     cvar_confidence : {<<1, 2>>, <<3, 4>>, <<19, 20>>, <<999, 1000>>}]

InitCVaR ==
    /\ SimIdle
    /\ call \in CVaRCalls
    /\ ret = [cvar |-> Zero]
    /\ pc = "call"

CallCVaR ==
    /\ pc = "call"
    /\ call.fn = "cvar"
    /\ ret' = [cvar |-> CVaR(call.period_costs, call.cvar_confidence)]
    /\ pc' = "return"
    /\ UNCHANGED <<call, scipy_ok, registry, sims>>

NextCVaR == CallCVaR

SpecCVaR == InitCVaR /\ [][NextCVaR]_vars

SeriesMax(q) == CHOOSE v \in {q[k] : k \in 1..Len(q)} : \A k \in 1..Len(q) : RLe(q[k], v)

\* C9: for a confidence below 1, CVaR_cost >= mean of the per-period cost
\* series; it never exceeds the largest cost and is the largest cost when no
\* period lies above the quantile index.
C9_CVaRAtLeastMean ==
    (Returned /\ call.fn = "cvar" /\ RLt(call.cvar_confidence, One)) =>
        /\ RLe(Mean(call.period_costs), ret.cvar)
        /\ RLe(ret.cvar, SeriesMax(call.period_costs))
        /\ CVaRIdx(call.cvar_confidence, Len(call.period_costs)) >= Len(call.period_costs)
              => ret.cvar = SeriesMax(call.period_costs)

\* a tail of two periods or more whose mean lies strictly between the series
\* mean and the largest cost
C9_Witness ==
    /\ Returned /\ call.fn = "cvar"
    /\ CVaRIdx(call.cvar_confidence, Len(call.period_costs)) + 2 <= Len(call.period_costs)
    /\ RLt(Mean(call.period_costs), ret.cvar)
    /\ RLt(ret.cvar, SeriesMax(call.period_costs))

\* Scenario B's arguments: fraud_prob = [0.9, 0.1, 0.1, ...], threshold 0.65
ScenarioB ==
    /\ Returned /\ call.fn = "decide_inspections"
    /\ call.fraud_prob = [i \in Districts |-> IF i = 1 THEN <<9, 10>> ELSE <<1, 10>>]
    /\ call.opt.inspection_threshold = <<13, 20>>

OnlyFirst == [i \in Districts |-> IF i = 1 THEN 1 ELSE 0]

\* C10 as stated: in Scenario B the inspection vector is [1,0,0] for any
\* budget, allocation and transport cost.
C10_AsStated == ScenarioB => ret.y = OnlyFirst

\* C10 amended: in Scenario B district 1 is inspected for any budget, and the
\* vector is exactly [1,0,0] if and only if the budget does not cover a second
\* inspection (budget < 2 * inspection_cost) or no other district has a
\* positive allocation.
C10_ScenarioB ==
    ScenarioB =>
        /\ ret.y[1] = 1
        /\ ret.y = OnlyFirst <=>
              \/ RLt(call.budget, RMul(R(2), call.opt.inspection_cost))
              \/ \A i \in Districts \ {1} : ~RLt(Zero, call.allocation[i])

\* Scenario B with every district allocated and a budget of one inspection
C10_Witness ==
    /\ ScenarioB
    /\ \A i \in Districts : RLt(Zero, call.allocation[i])
    /\ call.opt.inspection_cost = R(5000)
    /\ call.budget = R(5000)
    /\ ret.y = OnlyFirst

\* Scenario C's arguments: budget 0 and inspection_threshold 1.1
ScenarioC ==
    /\ Returned /\ call.fn = "decide_inspections"
    /\ call.budget = Zero
    /\ call.opt.inspection_threshold = <<11, 10>>

\* C11 as stated: in Scenario C the inspection vector is all zeros for every
\* allocation, every fraud_prob vector and every inspection cost kappa >= 0.
C11_AsStated == ScenarioC => ret.y = [i \in Districts |-> 0]

\* C11 amended: in Scenario C the inspection vector is all zeros for every
\* allocation and fraud_prob vector when the inspection cost kappa is > 0;
\* with kappa = 0 an inspection never exceeds the budget, and exactly the
\* districts with a positive allocation and a positive fraud probability
\* (ROI > 0) are inspected.
C11_ScenarioC ==
    ScenarioC =>
        \A i \in Districts :
            ret.y[i] = IF /\ call.opt.inspection_cost = Zero
                          /\ RLt(Zero, call.allocation[i])
                          /\ RLt(Zero, call.fraud_prob[i])
                       THEN 1 ELSE 0

\* Scenario C with a positive inspection cost and a positive ROI in every
\* district: nothing is inspected
C11_Witness ==
    /\ ScenarioC
    /\ RLt(Zero, call.opt.inspection_cost)
    /\ \A i \in Districts : RLt(Zero, call.allocation[i]) /\ RLt(Zero, call.fraud_prob[i])
    /\ ret.y = [i \in Districts |-> 0]

\* =========================================================== the simulator
InspectReturned == Returned /\ call.fn = "decide_inspections"

\* the districts above the threshold, and those the greedy phase added
CallMandatory ==
    {i \in Districts : RLt(call.opt.inspection_threshold, call.fraud_prob[i])}
CallGreedy == {i \in Districts \ CallMandatory : ret.y[i] = 1}

\* ROI_i of the call, as an ordered key
CallRoi(i) == RoiKey(call.opt, call.fraud_prob, call.allocation, call.transport_cost, i)

\* kappa times the number of inspections in a set
InspectionCostOf(set) == RMul(R(Cardinality(set)), call.opt.inspection_cost)

\* C21: in the greedy phase a non-mandatory district is inspected only if its
\* ROI is > 0 and the cumulative inspection cost, mandatory inspections
\* included, stays within the budget when it is taken; the inspected
\* non-mandatory districts form a prefix of the descending-ROI order; and
\* the total inspection cost exceeds the budget only when the mandatory
\* inspections alone exceed it.
C21_GreedyWithinBudget ==
    InspectReturned =>
        /\ \A i \in CallGreedy :
              /\ RLt(Zero, call.allocation[i])
              /\ RLt(Zero, RMul(call.fraud_prob[i], call.allocation[i]))
        /\ CallGreedy # {} =>
              RLe(InspectionCostOf(CallMandatory \cup CallGreedy), call.budget)
        /\ \A i \in CallGreedy : \A j \in Districts \ CallMandatory :
              ret.y[j] = 0 => ~RoiLess(CallRoi(i), CallRoi(j))
        /\ RLt(call.budget, InspectionCostOf({i \in Districts : ret.y[i] = 1})) =>
              RLt(call.budget, InspectionCostOf(CallMandatory))

\* one mandatory inspection, then the budget covers one more: of the
\* districts with positive ROI the best one is taken and a lower one is not
C21_Witness ==
    /\ InspectReturned
    /\ RLt(Zero, call.opt.inspection_cost)
    /\ CallMandatory # {}
    /\ \E i \in CallGreedy : \E j \in Districts \ CallMandatory :
          /\ ret.y[j] = 0
          /\ CallRoi(j)[1] >= 2
          /\ InspectionCostOf(CallMandatory \cup CallGreedy) = call.budget

\* ------------------------------------------- POST /api/v1/simulation/run
\* SimulationRequest: the pydantic Field constraints, field by field
RequestValid(req) ==
    /\ 6 <= req.n_periods /\ req.n_periods <= 60
    /\ RLe(<<1, 2>>, req.discount_factor) /\ RLe(req.discount_factor, One)
    /\ \A w \in {req.alpha, req.beta, req.gamma, req.delta} : RLe(Zero, w) /\ RLe(w, One)
    /\ RLe(Zero, req.inspection_effectiveness) /\ RLe(req.inspection_effectiveness, One)
    /\ RLe(Zero, req.fraud_shock_scale) /\ RLe(req.fraud_shock_scale, <<1, 5>>)
    /\ RLe(<<1, 2>>, req.supply_fraction) /\ RLe(req.supply_fraction, One)
    /\ RLe(Zero, req.inspection_cost)
    /\ RLe(Zero, req.budget_per_period)
    /\ RLe(Zero, req.stockout_penalty)
    /\ RLe(Zero, req.min_service_level) /\ RLe(req.min_service_level, One)
    /\ RLe(One, req.max_allocation_ratio) /\ RLe(req.max_allocation_ratio, R(5))
    /\ RLe(Zero, req.inspection_threshold) /\ RLe(req.inspection_threshold, One)
    /\ RLe(<<1, 2>>, req.cvar_confidence) /\ RLe(req.cvar_confidence, <<999, 1000>>)
    /\ req.policy \in STRING
    /\ req.seed \in Int

\* allocate, lines 82-97: the branch of the dispatch a policy string takes
PolicyBranch(policy) == IF policy \in Policies THEN policy ELSE "proportional"

\* Request bodies: the field defaults, with values on both sides of the
\* limits of four fields.
Requests ==
    [fn : {"run_simulation"},
     n_periods : {5, 6, 60, 61},
     discount_factor : {<<49, 100>>, <<1, 2>>, <<19, 20>>, One, <<101, 100>>},
     alpha : {<<1, 4>>}, beta : {<<7, 20>>}, gamma : {<<1, 4>>}, delta : {<<3, 20>>},
     inspection_effectiveness : {<<2, 5>>},
     fraud_shock_scale : {<<3, 100>>},
     supply_fraction : {<<91, 100>>},
     inspection_cost : {R(5000)},
     budget_per_period : {R(50000000)},
     stockout_penalty : {R(50)},
     min_service_level : {<<7, 10>>},
     max_allocation_ratio : {R(2)},
     inspection_threshold : {<<13, 20>>, <<11, 10>>},
     cvar_confidence : {<<49, 100>>, <<1, 2>>, <<999, 1000>>, One},
     policy : Policies \cup {"unrecognised"},
     seed : {42}]

NoResponse == [status |-> 0, periods |-> 0, allocated_as |-> "none"]

InitRequest ==
    /\ SimIdle
    /\ call \in Requests
    /\ ret = NoResponse
    /\ pc = "received"

\* FastAPI parses the body into a SimulationRequest before the handler runs;
\* a body that fails a Field constraint is answered with 422.
ValidateRequest ==
    /\ pc = "received"
    /\ call.fn = "run_simulation"
    /\ IF RequestValid(call)
       THEN pc' = "validated" /\ ret' = ret
       ELSE pc' = "rejected" /\ ret' = [ret EXCEPT !.status = 422]
    /\ UNCHANGED <<call, scipy_ok, registry, sims>>

\* run_simulation: the fields are copied into a SimulationConfig, a simulator
\* is built and run() simulates cfg.n_periods periods, each allocated by the
\* branch of allocate that cfg.policy selects.
RunSimulation ==
    /\ pc = "validated"
    /\ call.fn = "run_simulation"
    /\ ret' = [status |-> 200,
               periods |-> call.n_periods,
               allocated_as |-> PolicyBranch(call.policy)]
    /\ pc' = "responded"
    /\ UNCHANGED <<call, scipy_ok, registry, sims>>

NextRequest == ValidateRequest \/ RunSimulation

SpecRequest == InitRequest /\ [][NextRequest]_vars

\* the request has been answered
Answered == call.fn = "run_simulation" /\ pc \in {"rejected", "responded"}

\* the ranges the configuration declares
InDeclaredRanges(req) ==
    /\ 6 <= req.n_periods /\ req.n_periods <= 60
    /\ RLt(<<1, 2>>, req.discount_factor) /\ RLe(req.discount_factor, One)
    /\ \A w \in {req.alpha, req.beta, req.gamma, req.delta} : RLe(Zero, w) /\ RLe(w, One)
    /\ RLe(Zero, req.inspection_effectiveness) /\ RLe(req.inspection_effectiveness, One)
    /\ RLe(Zero, req.fraud_shock_scale) /\ RLe(req.fraud_shock_scale, <<1, 5>>)
    /\ RLe(<<1, 2>>, req.supply_fraction) /\ RLe(req.supply_fraction, One)
    /\ RLe(Zero, req.inspection_cost)
    /\ RLe(Zero, req.budget_per_period)
    /\ RLe(Zero, req.stockout_penalty)
    /\ RLe(Zero, req.min_service_level) /\ RLe(req.min_service_level, One)
    /\ RLe(One, req.max_allocation_ratio) /\ RLe(req.max_allocation_ratio, R(5))
    /\ RLe(Zero, req.inspection_threshold) /\ RLe(req.inspection_threshold, One)
    /\ RLe(<<1, 2>>, req.cvar_confidence) /\ RLe(req.cvar_confidence, <<999, 1000>>)

\* C14: a configuration in which any parameter lies outside its declared
\* range (n_periods outside [6,60], discount_factor outside (0.5,1.0],
\* cvar_confidence outside [0.5,0.999], ...) is rejected before the run
\* starts: no simulator is run and no period is simulated.
C14_OutOfRangeRejected ==
    (Answered /\ ~InDeclaredRanges(call)) => (pc = "rejected" /\ ret.periods = 0)

\* C15: the policy selector is a closed set of four values: a run requested
\* with any other policy value is rejected by validation, and no period is
\* allocated under a policy other than the one named in the configuration.
C15_PolicyClosedSet ==
    Answered =>
        /\ call.policy \notin Policies => (pc = "rejected" /\ ret.periods = 0)
        /\ pc = "responded" => ret.allocated_as = call.policy

\* ------------------------------------------------------ random generators
\* np.random.default_rng(seed): a generator is its state, a draw advances it
\* and yields a variate.  The bit generator is an additive generator on 128
\* states (107 is odd: the period is full); the variate (0..3) scrambles the
\* state, and each distribution maps it to a level.
RngSeed(seed) == seed % 128

\* the state k draws after state s
RngSkip(s, k) == (s + 107 * k) % 128

RngVariate(s) == ((s * (s + 3)) \div 16) % 4

\* n successive draws from state s: the variates and the state left behind
RngDraw(s, n) ==
    [state |-> RngSkip(s, n), u |-> [k \in 1..n |-> RngVariate(RngSkip(s, k))]]

\* rng.uniform(lo, hi): lo + (hi - lo) * U with U in {0, 1/2}
Uniform(lo, hi, u) == RAdd(lo, RMul(RSub(hi, lo), Rat(u % 2, 2)))

\* rng.normal(1.0, 0.015): the demand noise factor.  Its 1.5% spread is below
\* the resolution of the demand levels: every variate gives the factor 1.
NormalNoise(u) == <<One, One, One, One>>[u + 1]

\* rng.lognormal(mu_ln, sigma) with mu_ln = ln(max(D_hat,1)) - sigma^2/2 and
\* sigma = sqrt(ln(1 + (D_std/max(D_hat,1))^2)): max(D_hat,1) times a factor;
\* sigma = 0 gives the factor 1.  The lowest level, 0, is the limit of the
\* small draws, the value run() guards its service-ratio division against.
LogNormal(D_hat, D_std, u) ==
    IF D_std = Zero THEN RMax(D_hat, One)
    ELSE RMul(RMax(D_hat, One), <<Zero, (<<1, 2>>), One, R(2)>>[u + 1])

\* ---------------------------------------------------------- data generator
\* base_fraction of _build_supply_schedule (periods past the table: 0.91)
BaseFraction(t) ==
    IF t >= 24 THEN <<91, 100>>
    ELSE << <<91, 100>>, <<22, 25>>, <<87, 100>>, <<89, 100>>, <<91, 100>>, <<93, 100>>,
            <<47, 50>>, <<19, 20>>, <<93, 100>>, <<91, 100>>, <<9, 10>>, <<91, 100>> >>[(t % 12) + 1]

\* _build_demand_profiles: mu = max(base * seasonal * growth * noise, 1),
\* noise drawn district by district.  The product base * seasonal * growth
\* of district i in period t is the level demand_kg[t] of its registry entry
\* (whole kilograms, so that a run stays within exact arithmetic).
DemandProfiles(reg, T, u) ==
    [i \in Districts |->
        [t \in 1..T |->
            RMax(RMul(R(reg[i].demand_kg[t]), NormalNoise(u[(i - 1) * T + t])), One)]]

\* _build_transport_costs: 0.40 + 0.011 * dist_km
TransportCosts(reg) ==
    [i \in Districts |-> RAdd(<<2, 5>>, RMul(<<11, 1000>>, R(reg[i].dist_km)))]

\* _build_initial_inventory: demand_mean[:, 0] * 1.8 * uniform(0.85, 1.15)
InitialInventory(mu, u) ==
    [i \in Districts |->
        RMul(RMul(mu[i][1], <<9, 5>>), Uniform(<<17, 20>>, <<23, 20>>, u[i]))]

\* _build_supply_schedule: total demand * clip(base_fraction + noise, 0.82, 0.97)
SupplySchedule(mu, T, u) ==
    [t \in 1..T |->
        RMul(VSum([i \in Districts |-> mu[i][t]]),
             Clip(RAdd(BaseFraction(t - 1), Uniform(<<-1, 100>>, <<1, 100>>, u[t])),
                  <<41, 50>>, <<97, 100>>))]

\* DistrictDataGenerator(n_periods, seed).generate(): the generator owns a
\* stream seeded by `seed`; the demand noise is drawn first, then the
\* inventory noise, then the supply noise.
Generate(reg, n_periods, seed) ==
    LET T == n_periods
        u == RngDraw(RngSeed(seed), NumDistricts * T + NumDistricts + T).u
        mu == Arr(DemandProfiles(reg, T, SubSeq(u, 1, NumDistricts * T)))
    IN  [transport_cost |-> TransportCosts(reg),
         initial_inventory |->
            InitialInventory(mu, SubSeq(u, NumDistricts * T + 1,
                                        NumDistricts * T + NumDistricts)),
         initial_fraud_prob |-> [i \in Districts |-> reg[i].fraud_seed],
         demand_mean |-> [t \in 1..T |-> [i \in Districts |-> mu[i][t]]],
         demand_std |-> [t \in 1..T |-> [i \in Districts |-> RMul(mu[i][t], DemandCV)]],
         supply_schedule |->
            SupplySchedule(mu, T, SubSeq(u, NumDistricts * T + NumDistricts + 1,
                                         NumDistricts * T + NumDistricts + T))]

\* ------------------------------------------------------------ configuration
\* SimulationConfig: the fields the run reads.  The policy, the seed, the
\* budget, the inspection threshold and the supply fraction vary; the cost
\* weights and penalties are those of DefaultOpt.  The horizon is 24 months by
\* default in the source and two periods here, the first starting from the
\* provider's data and the second from the state the first leaves: a third
\* period takes the exact fractions past the integer range.  The inspection
\* effectiveness (0.40) and the shock scale (0.03) are coarsened to 1/2, 1/5.
DefaultConfig ==
    [n_periods |-> 2,
     inspection_effectiveness |-> <<1, 2>>,
     fraud_shock_scale |-> <<1, 5>>,
     supply_fraction |-> <<91, 100>>,
     budget_per_period |-> R(50000000),
     min_service_level |-> <<7, 10>>,
     inspection_threshold |-> <<13, 20>>,
     policy |-> "optimized",
     seed |-> 0]

\* (budget_per_period, inspection_threshold): everything affordable, only the
\* mandatory inspections, no inspection at all
InspectionRegimes ==
    { <<R(50000000), <<13, 20>>>>, <<Zero, <<13, 20>>>>, <<Zero, One>> }

Configs ==
    {[DefaultConfig EXCEPT !.policy = pol, !.seed = sd,
                           !.budget_per_period = rg[1], !.inspection_threshold = rg[2]] :
        pol \in Policies \cup {"unrecognised"}, sd \in 0..MaxSeed, rg \in InspectionRegimes}

\* A second configuration is the first one, the first one under another
\* policy, the first one with another supply_fraction, or the first one with
\* the strictest min_service_level.
OtherPolicy(pol) ==
    CASE pol = "proportional" -> "optimized"
      [] pol = "optimized" -> "equity_first"
      [] pol = "equity_first" -> "risk_averse"
      [] OTHER -> "proportional"

Variations(cfg) ==
    {cfg, [cfg EXCEPT !.policy = OtherPolicy(cfg.policy)],
          [cfg EXCEPT !.supply_fraction = <<1, 2>>],
          [cfg EXCEPT !.min_service_level = One]}

\* SCMSimulator.__init__: the AllocationOptimizer built from the config
OptimizerOf(cfg) == [DefaultOpt EXCEPT !.inspection_threshold = cfg.inspection_threshold]

\* District registries: district 1 is the depot town (large offtake, 0 km),
\* the others are remote and their offtake halves in the second month.  The
\* fraud seeds range over the interface's [0,1]: 0.2 as in the shipped
\* registry (0.07 to 0.25), and the two ends of the interval on one side.
FraudSeeds ==
    {f \in VecFamily({Zero, <<1, 5>>, One}) : \E i \in Districts : f[i] = <<1, 5>>}

Registries ==
    {[i \in Districts |->
        [demand_kg |-> IF i = 1 THEN <<20, 20>> ELSE <<10, 5>>,
         dist_km |-> IF i = 1 THEN 0 ELSE 100,
         fraud_seed |-> f[i]]] : f \in FraudSeeds}

\* ------------------------------------------------------------ round()
\* floor(v * 10^digits) and whether the remainder is below, at or above one half
RECURSIVE Scaled(_, _, _, _)
Scaled(q, r, d, digits) ==
    IF digits = 0 THEN [q |-> q, r |-> r]
    ELSE Scaled(10 * q + (10 * r) \div d, (10 * r) % d, d, digits - 1)

RECURSIVE Pow10(_)
Pow10(k) == IF k = 0 THEN 1 ELSE 10 * Pow10(k - 1)

\* round(v, digits) for v >= 0: nearest, ties to even
Round(v, digits) ==
    LET s == Scaled(v[1] \div v[2], v[1] % v[2], v[2], digits)
        up == \/ 2 * s.r > v[2]
              \/ 2 * s.r = v[2] /\ s.q % 2 = 1
    IN  Rat(IF up THEN s.q + 1 ELSE s.q, Pow10(digits))

\* np.mean over the district axis
VMean(x) == RDiv(VSum(x), R(NumDistricts))

\* sum and mean of a list of values
RECURSIVE ListSum(_)
ListSum(q) == IF q = <<>> THEN Zero ELSE RAdd(q[1], ListSum(Tail(q)))

ListMean(q) == RDiv(ListSum(q), R(Len(q)))

\* int((mask).sum())
Count(mask) == Cardinality({i \in Districts : mask[i]})

\* ------------------------------------------------------------ one instance
\* self.rng of instance s
SharedRng(ss, s) == ss["a"].rng

SimRng(ss, s) == ss[s].rng

\* mutant: what is not diverted is counted as leakage
LeakageOfRemainder(p, x) == RMul(RSub(One, p), x)

\* L = p * x
Leakage(p, x) == RMul(p, x)

\* mutant: the leaked quantity stays available to beneficiaries
EffectiveSupplyBeforeLeakage(I, x, L) == RMax(RAdd(I, x), Zero)

\* effective_supply = np.maximum(I + x - L, 0.0)
EffectiveSupply(I, x, L) == RMax(RSub(RAdd(I, x), L), Zero)

\* stockout = np.maximum(D_real - effective_supply, 0.0)
Stockout(D_real, effective_supply) == RMax(RSub(D_real, effective_supply), Zero)

\* service_ratio = np.clip(np.where(D_real > 0, effective_supply / D_real, 1.0), 0.0, 1.0)
ServiceRatioUnclipped(effective_supply, D_real) ==
    IF RLt(Zero, D_real) THEN RDiv(effective_supply, D_real) ELSE One

ServiceRatio(effective_supply, D_real) ==
    Clip(IF RLt(Zero, D_real) THEN RDiv(effective_supply, D_real) ELSE One, Zero, One)

\* I_new = np.maximum(effective_supply - D_real, 0.0)
InventoryUnclamped(effective_supply, D_real) == RSub(effective_supply, D_real)

\* mutant: the consumed quantity is not taken out of the stock
InventoryNotDrawnDown(effective_supply, D_real) == RMax(effective_supply, Zero)

InventoryUpdate(effective_supply, D_real) == RMax(RSub(effective_supply, D_real), Zero)

\* mutant: the schedule is scaled by the configured fraction
SupplyOfferedScaled(cfg, supply_sched, t) == RMul(supply_sched[t + 1], cfg.supply_fraction)

\* S_t = supply_sched[t] * cfg.supply_fraction / cfg.supply_fraction, then
\* S_t = supply_sched[t]: the second assignment is the one allocate sees
SupplyOffered(cfg, supply_sched, t) == supply_sched[t + 1]

\* mutant: a shock is drawn for the uninspected districts only
ShockDrawsUninspected(state, y) ==
    [state |-> RngSkip(state, Cardinality({i \in Districts : y[i] = 0})),
     u |-> RngDraw(state, NumDistricts).u]

\* self.rng.uniform(0, cfg.fraud_shock_scale, size=N): one draw per district,
\* whatever the inspection vector y
ShockDraws(state, y) == RngDraw(state, NumDistricts)

\* mutant: the shock lowers the fraud probability
FraudUpdateShockDown(p, eta, y, shock) ==
    Clip(RSub(RMul(p, RSub(One, RMul(eta, R(y)))), shock), <<1, 100>>, <<99, 100>>)

\* p_new = np.clip(p * (1 - inspection_effectiveness * y) + shock, 0.01, 0.99)
FraudUpdate(p, eta, y, shock) ==
    Clip(RAdd(RMul(p, RSub(One, RMul(eta, R(y)))), shock), <<1, 100>>, <<99, 100>>)

\* mutant: the stock on hand is left out of the coverage
MinCoverageOfAllocation(I, x, D_hat) ==
    IF RLt(Zero, D_hat) THEN RDiv(x, D_hat) ELSE One

\* min_coverage = np.where(D_hat > 0, (I + x) / D_hat, 1.0)
MinCoverage(I, x, D_hat) == IF RLt(Zero, D_hat) THEN RDiv(RAdd(I, x), D_hat) ELSE One

\* One iteration of the loop of run(): the instance after period t, given the
\* generator state it draws from.
Period(sim, rng) ==
    LET cfg == sim.cfg
        t == sim.t
        I == sim.I
        p == sim.p
        c == sim.data.transport_cost
        D_hat == sim.data.demand_mean[t + 1]
        D_std == sim.data.demand_std[t + 1]
        S_t == SupplyOffered(cfg, sim.data.supply_schedule, t)
        opt == OptimizerOf(cfg)
        demand == RngDraw(rng, NumDistricts)
    IN
    With(Allocation(opt, scipy_ok, I, D_hat, D_std, p, c, S_t, cfg.policy, Zero), LAMBDA x :
    With(DecideInspections(opt, p, x, c, cfg.budget_per_period), LAMBDA y :
    With([i \in Districts |-> LogNormal(D_hat[i], D_std[i], demand.u[i])], LAMBDA D_real :
    With([i \in Districts |-> Leakage(p[i], x[i])], LAMBDA L :
    With([i \in Districts |-> EffectiveSupply(I[i], x[i], L[i])], LAMBDA effective_supply :
    With([i \in Districts |-> Stockout(D_real[i], effective_supply[i])], LAMBDA stockout :
    With([i \in Districts |-> ServiceRatio(effective_supply[i], D_real[i])], LAMBDA service_ratio :
    With([i \in Districts |-> InventoryUpdate(effective_supply[i], D_real[i])], LAMBDA I_new :
    With(ShockDraws(demand.state, y), LAMBDA shock :
    With([i \in Districts |->
             FraudUpdate(p[i], cfg.inspection_effectiveness, y[i],
                         Uniform(Zero, cfg.fraud_shock_scale, shock.u[i]))], LAMBDA p_new :
    [sim EXCEPT
        !.rng = shock.state, !.t = t + 1, !.I = I_new, !.p = p_new,
        !.periods = Append(@,
            [period |-> t,
             inventory_start |-> I,
             inventory_end |-> I_new,
             demand_mean |-> D_hat,
             demand_realized |-> D_real,
             fraud_prob_start |-> p,
             fraud_prob_end |-> p_new,
             service_ratio |-> service_ratio,
             allocation |-> x,
             inspections |-> y,
             leakage |-> L,
             cost_transport |-> VSum([i \in Districts |-> RMul(c[i], x[i])]),
             cost_stockout |->
                 VSum([i \in Districts |-> RMul(opt.stockout_penalty, stockout[i])]),
             cost_leakage |-> VSum(L),
             n_stockouts |-> Count([i \in Districts |-> RLt(Zero, stockout[i])]),
             n_inspections |-> Count([i \in Districts |-> y[i] = 1]),
             total_demand_kg |-> VSum(D_real),
             total_supply_kg |-> VSum(x),
             avg_service_ratio |-> VMean(service_ratio),
             avg_fraud_prob |-> VMean(p),
             violations |->
                 Count([i \in Districts |->
                           RLt(MinCoverage(I[i], x[i], D_hat[i]),
                               cfg.min_service_level)])])]
    ))))))))))

\* The run-level summary of run()
Summary(periods) ==
    [n_periods |-> Len(periods),
     avg_service_level |->
        Round(ListMean([k \in 1..Len(periods) |-> periods[k].avg_service_ratio]), 4),
     avg_fraud_prob |->
        Round(ListMean([k \in 1..Len(periods) |-> periods[k].avg_fraud_prob]), 4),
     total_leakage_kg |->
        Round(ListSum([k \in 1..Len(periods) |-> VSum(periods[k].leakage)]), 1),
     total_stockout_kg |->
        Round(ListSum([k \in 1..Len(periods) |->
                RMax(Zero, RSub(periods[k].total_demand_kg, periods[k].total_supply_kg))]), 1)]

\* ---------------------------------------------------------------- actions
\* The process is single-threaded: a call of run() returns before anything
\* else happens.
NoRunInProgress == \A s \in Sims : sims[s].status # "running"

\* sim = SCMSimulator(cfg)
Construct(s, cfg) ==
    /\ sims[s].status = "absent"
    /\ NoRunInProgress
    /\ sims' = [sims EXCEPT ![s] =
                  [status |-> "ready",
                   cfg |-> cfg,
                   rng |-> RngSeed(cfg.seed),
                   data |-> Generate(registry, cfg.n_periods, cfg.seed),
                   t |-> 0,
                   I |-> NoVec,
                   p |-> NoVec,
                   periods |-> <<>>,
                   results |-> <<>>]]
    /\ UNCHANGED <<call, ret, pc, scipy_ok, registry>>

\* Without scipy only the policies that import it behave differently.
ConstructFirst ==
    \E cfg \in Configs :
        /\ scipy_ok = "available" \/ cfg.policy \in LPPolicies
        /\ Construct("a", cfg)

ConstructSecond ==
    /\ sims["a"].status # "absent"
    /\ \E cfg \in Variations(sims["a"].cfg) : Construct("b", cfg)

\* mutant: the run starts from empty stock and zero fraud probability
StartRunEmpty(s) ==
    /\ sims[s].status = "ready"
    /\ Len(sims[s].results) < MaxRuns
    /\ NoRunInProgress
    /\ sims' = [sims EXCEPT ![s] =
                  [@ EXCEPT !.status = "running",
                            !.t = 0,
                            !.periods = <<>>]]
    /\ UNCHANGED <<call, ret, pc, scipy_ok, registry>>

\* sim.run(), up to the loop: the state is copied from the data
StartRun(s) ==
    /\ sims[s].status = "ready"
    /\ Len(sims[s].results) < MaxRuns
    /\ NoRunInProgress
    /\ sims' = [sims EXCEPT ![s] =
                  [@ EXCEPT !.status = "running",
                            !.t = 0,
                            !.I = sims[s].data.initial_inventory,
                            !.p = sims[s].data.initial_fraud_prob,
                            !.periods = <<>>]]
    /\ UNCHANGED <<call, ret, pc, scipy_ok, registry>>

\* one iteration of `for t in range(T)`
RunPeriod(s) ==
    /\ sims[s].status = "running"
    /\ sims[s].t < sims[s].cfg.n_periods
    /\ sims' = [sims EXCEPT ![s] = Period(sims[s], SimRng(sims, s))]
    /\ UNCHANGED <<call, ret, pc, scipy_ok, registry>>

\* the summary after the loop; run() returns
FinishRun(s) ==
    /\ sims[s].status = "running"
    /\ sims[s].t = sims[s].cfg.n_periods
    /\ sims' = [sims EXCEPT ![s] =
                  [@ EXCEPT !.status = "ready",
                            !.t = 0,
                            !.I = NoVec,
                            !.p = NoVec,
                            !.periods = <<>>,
                            !.results = Append(@, [periods |-> sims[s].periods,
                                                   summary |-> Summary(sims[s].periods)])]]
    /\ UNCHANGED <<call, ret, pc, scipy_ok, registry>>

Init ==
    /\ call = NoCall
    /\ ret = NoCall
    /\ pc = "idle"
    /\ scipy_ok \in {"available", "missing"}
    /\ registry \in Registries
    /\ sims = NoSims

Next ==
    \/ ConstructFirst
    \/ ConstructSecond
    \/ \E s \in Sims : StartRun(s)
    \/ \E s \in Sims : RunPeriod(s)
    \/ \E s \in Sims : FinishRun(s)

Spec == Init /\ [][Next]_vars

\* ------------------------------------------------- claims about the runs
Constructed == {s \in Sims : sims[s].status # "absent"}

\* The period lists of the calls of run() on instance s, in call order: the
\* returned ones, then the one in progress.
RunsOf(s) ==
    [k \in 1..Len(sims[s].results) |-> sims[s].results[k].periods]
        \o (IF sims[s].status = "running" THEN <<sims[s].periods>> ELSE <<>>)

\* Every period snapshot recorded so far
SnapshotsOf(s) ==
    UNION {{RunsOf(s)[k][j] : j \in 1..Len(RunsOf(s)[k])} : k \in 1..Len(RunsOf(s))}

Snapshots == UNION {SnapshotsOf(s) : s \in Constructed}

InUnit(v, lo, hi) == RLe(lo, v) /\ RLe(v, hi)

C4_InventoryNonNegative ==
    /\ \A s \in Constructed : \A i \in Districts :
          RLe(Zero, sims[s].data.initial_inventory[i])
    /\ \A pr \in Snapshots : \A i \in Districts :
          /\ RLe(Zero, pr.inventory_start[i])
          /\ RLe(Zero, pr.inventory_end[i])

\* a period in which one district is drained to exactly 0 by a demand above
\* its effective supply while another keeps stock
C4_Witness ==
    \E pr \in Snapshots : \E i, j \in Districts :
        /\ pr.inventory_end[i] = Zero
        /\ RLt(pr.service_ratio[i], One)
        /\ RLt(Zero, pr.inventory_end[j])

\* C5: in every period and for every district service_ratio_i is in [0,1],
\* and it is 1 whenever the realized demand D_real_i is 0.
C5_ServiceRatioInUnitInterval ==
    \A pr \in Snapshots : \A i \in Districts :
        /\ InUnit(pr.service_ratio[i], Zero, One)
        /\ pr.demand_realized[i] = Zero => pr.service_ratio[i] = One

\* one period with a district of zero realized demand, a district served in
\* part, and a district whose supply exceeds its positive demand
C5_Witness ==
    \E pr \in Snapshots : \E i, j, k \in Districts :
        /\ pr.demand_realized[i] = Zero /\ pr.service_ratio[i] = One
        /\ RLt(Zero, pr.service_ratio[j]) /\ RLt(pr.service_ratio[j], One)
        /\ RLt(Zero, pr.demand_realized[k]) /\ RLt(Zero, pr.inventory_end[k])

\* the epsilon of the coverage formula: any value in (0, 1] gives the same
\* coverage, since the generator's demand_mean is at least 1 kg
Epsilon == <<1, 1000>>

\* coverage_i = (I_i + x_i) / max(demand_mean_i, eps), from a snapshot
Coverage(pr, i) ==
    RDiv(RAdd(pr.inventory_start[i], pr.allocation[i]), RMax(pr.demand_mean[i], Epsilon))

\* C16: in every period the governance check does not abort the run, and the
\* period's snapshot records a governance violation exactly when at least one
\* district has coverage (I_i + x_i)/max(demand_mean_i, eps) below
\* min_service_level.
C16_GovernanceViolations ==
    \A s \in Constructed :
        /\ \A pr \in SnapshotsOf(s) :
              (pr.violations > 0) <=>
                  (\E i \in Districts : RLt(Coverage(pr, i), sims[s].cfg.min_service_level))
        /\ \A k \in 1..Len(sims[s].results) :
              Len(sims[s].results[k].periods) = sims[s].cfg.n_periods

\* a run that recorded no violation in its first period and one in its
\* second, and returned its result
C16_Witness ==
    \E s \in Constructed :
        /\ Len(sims[s].results) >= 1
        /\ sims[s].results[1].periods[1].violations = 0
        /\ sims[s].results[1].periods[2].violations > 0

\* C19: a run executes periods 0..T-1 in order and then completes: its result
\* holds exactly T snapshots with period indices 0..T-1; period 0 starts from
\* the provider's initial inventory and initial fraud probabilities, and
\* period t+1 starts from inventory_end and fraud_prob_end of period t.
C19_PeriodsInOrder ==
    \A s \in Constructed :
        /\ \A k \in 1..Len(RunsOf(s)) :
              LET ps == RunsOf(s)[k]
              IN  /\ Len(ps) <= sims[s].cfg.n_periods
                  /\ \A j \in 1..Len(ps) : ps[j].period = j - 1
                  /\ Len(ps) >= 1 =>
                        /\ ps[1].inventory_start = sims[s].data.initial_inventory
                        /\ ps[1].fraud_prob_start = sims[s].data.initial_fraud_prob
                  /\ \A j \in 1..(Len(ps) - 1) :
                        /\ ps[j + 1].inventory_start = ps[j].inventory_end
                        /\ ps[j + 1].fraud_prob_start = ps[j].fraud_prob_end
        /\ \A k \in 1..Len(sims[s].results) :
              Len(sims[s].results[k].periods) = sims[s].cfg.n_periods

\* a returned run whose second period started from a stock and a fraud
\* probability that the first period had changed
C19_Witness ==
    \E s \in Constructed :
        /\ Len(sims[s].results) >= 1
        /\ LET ps == sims[s].results[1].periods
           IN  /\ Len(ps) = sims[s].cfg.n_periods
               /\ ps[2].period = 1
               /\ ps[2].inventory_start = ps[1].inventory_end
               /\ ps[2].inventory_start # sims[s].data.initial_inventory
               /\ ps[2].fraud_prob_start # sims[s].data.initial_fraud_prob

\* C20: in every period leakage_i = fraud_prob_start_i * allocation_i, and
\* the leakage cost is the sum of these: both use the fraud probability the
\* period started with, never fraud_prob_end.
C20_LeakageFromStartFraud ==
    \A pr \in Snapshots :
        /\ \A i \in Districts :
              pr.leakage[i] = RMul(pr.fraud_prob_start[i], pr.allocation[i])
        /\ pr.cost_leakage =
              VSum([i \in Districts |-> RMul(pr.fraud_prob_start[i], pr.allocation[i])])

\* a period in which the fraud probability of a supplied district moved, so
\* that the leakage computed from fraud_prob_end would differ
C20_Witness ==
    \E pr \in Snapshots : \E i \in Districts :
        /\ RLt(Zero, pr.allocation[i])
        /\ pr.fraud_prob_end[i] # pr.fraud_prob_start[i]
        /\ pr.leakage[i] = RMul(pr.fraud_prob_start[i], pr.allocation[i])
        /\ pr.leakage[i] # RMul(pr.fraud_prob_end[i], pr.allocation[i])

\* p_i * (1 - eta * y_i) of a snapshot
Deterred(cfg, pr, i) ==
    RMul(pr.fraud_prob_start[i],
         RSub(One, RMul(cfg.inspection_effectiveness, R(pr.inspections[i]))))

FraudClip(v) == Clip(v, <<1, 100>>, <<99, 100>>)

\* C22: the fraud update is p'_i = clip(p_i*(1 - eta*y_i) + shock_i, 0.01,
\* 0.99) with a shock_i in [0, eps_max] for every district; so a district
\* that is not inspected and starts within [0.01, 0.99] never ends the period
\* lower than it started, and only inspected districts decrease.
C22_FraudUpdate ==
    \A s \in Constructed : \A pr \in SnapshotsOf(s) : \A i \in Districts :
        /\ RLe(FraudClip(Deterred(sims[s].cfg, pr, i)), pr.fraud_prob_end[i])
        /\ RLe(pr.fraud_prob_end[i],
               FraudClip(RAdd(Deterred(sims[s].cfg, pr, i), sims[s].cfg.fraud_shock_scale)))
        /\ InUnit(pr.fraud_prob_start[i], <<1, 100>>, <<99, 100>>) =>
              /\ pr.inspections[i] = 0 => RLe(pr.fraud_prob_start[i], pr.fraud_prob_end[i])
              /\ RLt(pr.fraud_prob_end[i], pr.fraud_prob_start[i]) => pr.inspections[i] = 1

\* one period in which an inspected district went down, and two districts
\* that were not inspected started equal, one staying and one going up
C22_Witness ==
    \E pr \in Snapshots : \E i, j, k \in Districts :
        /\ pr.inspections[i] = 1
        /\ RLt(pr.fraud_prob_end[i], pr.fraud_prob_start[i])
        /\ pr.inspections[j] = 0 /\ pr.inspections[k] = 0
        /\ pr.fraud_prob_start[j] = pr.fraud_prob_start[k]
        /\ InUnit(pr.fraud_prob_start[j], <<1, 100>>, <<99, 100>>)
        /\ pr.fraud_prob_end[j] = pr.fraud_prob_start[j]
        /\ RLt(pr.fraud_prob_start[k], pr.fraud_prob_end[k])

\* the stockout of district i in a recorded period, from the snapshot's own
\* fields: max(D_real_i - max(I_i + x_i - L_i, 0), 0)
StockoutOf(pr, i) ==
    Stockout(pr.demand_realized[i],
             EffectiveSupply(pr.inventory_start[i], pr.allocation[i], pr.leakage[i]))

StockoutOfRun(periods) ==
    ListSum([k \in 1..Len(periods) |->
                VSum([i \in Districts |-> StockoutOf(periods[k], i)])])

\* round(v, 1) lies within 0.05 of v
WithinRounding(r, v) == RLe(RSub(v, <<1, 20>>), r) /\ RLe(r, RAdd(v, <<1, 20>>))

\* C25: the total_stockout_kg of a run's summary is, up to the rounding to one
\* decimal, the sum over the run's periods and districts of the per-district
\* stockout max(D_real_i - effective_supply_i, 0).
C25_TotalStockout ==
    \A s \in Constructed : \A k \in 1..Len(sims[s].results) :
        WithinRounding(sims[s].results[k].summary.total_stockout_kg,
                       StockoutOfRun(sims[s].results[k].periods))

\* C26: in every period and district at most one of stockout_i and
\* inventory_end_i is positive: a positive stockout leaves no inventory, and a
\* positive inventory_end means no stockout and a service ratio of 1.
C26_StockoutOrInventory ==
    \A pr \in Snapshots : \A i \in Districts :
        /\ RLt(Zero, StockoutOf(pr, i)) => pr.inventory_end[i] = Zero
        /\ RLt(Zero, pr.inventory_end[i]) =>
              /\ StockoutOf(pr, i) = Zero
              /\ pr.service_ratio[i] = One

\* one period in which a district runs short and ends empty while another
\* ends with stock, fully served
C26_Witness ==
    \E pr \in Snapshots : \E i, j \in Districts :
        /\ RLt(Zero, StockoutOf(pr, i))
        /\ pr.inventory_end[i] = Zero
        /\ RLt(pr.service_ratio[i], One)
        /\ RLt(Zero, pr.inventory_end[j])
        /\ StockoutOf(pr, j) = Zero
        /\ RLt(Zero, pr.demand_realized[j])
        /\ pr.service_ratio[j] = One

\* min(D_real_i, effective_supply_i): the quantity beneficiaries receive
Served(pr, i) ==
    RMin(pr.demand_realized[i],
         EffectiveSupply(pr.inventory_start[i], pr.allocation[i], pr.leakage[i]))

\* C27: in every period and district whose starting fraud probability is at
\* most 1, inventory_start_i + allocation_i =
\* leakage_i + min(D_real_i, effective_supply_i) + inventory_end_i.
C27_Conservation ==
    \A pr \in Snapshots : \A i \in Districts :
        RLe(pr.fraud_prob_start[i], One) =>
            RAdd(pr.inventory_start[i], pr.allocation[i]) =
                RAdd(RAdd(pr.leakage[i], Served(pr, i)), pr.inventory_end[i])

\* one period with leakage in which a district is served its whole demand and
\* keeps stock while another is served less than its demand
C27_Witness ==
    \E pr \in Snapshots : \E i, j \in Districts :
        /\ RLt(Zero, pr.leakage[i]) /\ RLt(Zero, pr.leakage[j])
        /\ Served(pr, i) = pr.demand_realized[i]
        /\ RLt(Zero, pr.inventory_end[i])
        /\ RLt(Served(pr, j), pr.demand_realized[j])
        /\ RLt(Zero, Served(pr, j))
        /\ RAdd(pr.inventory_start[j], pr.allocation[j]) =
              RAdd(pr.leakage[j], Served(pr, j))

IsPrefix(p, q) == Len(p) <= Len(q) /\ p = SubSeq(q, 1, Len(p))

Min(m, n) == IF m < n THEN m ELSE n

SameButSupplyFraction(c1, c2) == [c1 EXCEPT !.supply_fraction = c2.supply_fraction] = c2

SameButPolicy(c1, c2) == [c1 EXCEPT !.policy = c2.policy] = c2

\* C28: the draws of a period (N demand draws, then N shock draws) do not
\* depend on any decision: two instances with the same seed and configuration
\* but different policies realize the same demand in every period and
\* district of their runs.
C28_DemandIndependentOfPolicy ==
    \A s1, s2 \in Constructed :
        SameButPolicy(sims[s1].cfg, sims[s2].cfg) =>
            \A k \in 1..Min(Len(RunsOf(s1)), Len(RunsOf(s2))) :
                \A j \in 1..Min(Len(RunsOf(s1)[k]), Len(RunsOf(s2)[k])) :
                    RunsOf(s1)[k][j].demand_realized = RunsOf(s2)[k][j].demand_realized

\* two returned runs under different policies whose allocations and
\* inspections differ in the first period, with the same demand, realized off
\* its forecast, in the second
C28_Witness ==
    /\ Constructed = Sims
    /\ sims["a"].cfg.policy # sims["b"].cfg.policy
    /\ SameButPolicy(sims["a"].cfg, sims["b"].cfg)
    /\ Len(sims["a"].results) >= 1 /\ Len(sims["b"].results) >= 1
    /\ LET pa == sims["a"].results[1].periods
           pb == sims["b"].results[1].periods
       IN  /\ pa[1].allocation # pb[1].allocation
           /\ pa[1].inspections # pb[1].inspections
           /\ pa[2].demand_realized = pb[2].demand_realized
           /\ pa[2].demand_realized # pa[2].demand_mean

\* C6: two simulator instances built from identical configuration (seed
\* included) hold the same data and produce, call for call, identical
\* period-by-period snapshots and identical run-level summaries.
C6_Determinism ==
    \A s1, s2 \in Constructed :
        sims[s1].cfg = sims[s2].cfg =>
            /\ sims[s1].data = sims[s2].data
            /\ \A k \in 1..Min(Len(RunsOf(s1)), Len(RunsOf(s2))) :
                  IsPrefix(RunsOf(s1)[k], RunsOf(s2)[k]) \/ IsPrefix(RunsOf(s2)[k], RunsOf(s1)[k])
            /\ \A k \in 1..Min(Len(sims[s1].results), Len(sims[s2].results)) :
                  sims[s1].results[k] = sims[s2].results[k]

\* both instances were built from one configuration and each has returned a
\* run in which demand was realized off its forecast and fraud moved
C6_Witness ==
    /\ Constructed = Sims
    /\ sims["a"].cfg = sims["b"].cfg
    /\ Len(sims["a"].results) >= 1 /\ Len(sims["b"].results) >= 1
    /\ \E i \in Districts :
          LET pr == sims["b"].results[1].periods[1]
          IN  /\ pr.demand_realized[i] # pr.demand_mean[i]
              /\ pr.fraud_prob_end[i] # pr.fraud_prob_start[i]

\* ------------------------------------ a period on degenerate inputs
\* One period taken on its own: allocate, then the period transition of run()
\* on the allocation it returned.  The calls are those in which a district
\* has no demand or no stock, or the period has no supply; u holds the
\* lognormal variate of each district.
EdgeCalls ==
    {[c EXCEPT !.fn = "allocate"] @@ [u |-> u] :
        c \in {a \in AllocCalls :
                  /\ a.fp_err = Zero
                  /\ a.budget = R(50000000)
                  /\ \/ a.supply_total = Zero
                     \/ \E i \in Districts : a.demand_mean[i] = Zero
                     \/ \E i \in Districts : a.inventory[i] = Zero},
        u \in {[i \in Districts |-> IF i = 1 THEN a ELSE b] : a \in {0, 3}, b \in {0, 3}}}

InitEdge ==
    /\ SimIdle
    /\ call \in EdgeCalls
    /\ ret = [x |-> NoVec, y |-> [i \in Districts |-> 0]]
    /\ pc = "call"

\* run(), lines 241-261: demand realisation, leakage, effective supply,
\* stockout, service ratio and inventory update, on the x of allocate
SimulatePeriod ==
    /\ pc = "return"
    /\ call.fn = "allocate"
    /\ LET D_real == [i \in Districts |->
                         LogNormal(call.demand_mean[i], DemandStd(call.demand_mean)[i],
                                   call.u[i])]
           eff == [i \in Districts |->
                      EffectiveSupply(call.inventory[i], ret.x[i],
                                      Leakage(call.fraud_prob[i], ret.x[i]))]
       IN  ret' = [x |-> ret.x, y |-> ret.y,
                   demand_realized |-> D_real,
                   effective_supply |-> eff,
                   stockout |-> [i \in Districts |-> Stockout(D_real[i], eff[i])],
                   service_ratio |-> [i \in Districts |-> ServiceRatio(eff[i], D_real[i])],
                   inventory_end |-> [i \in Districts |-> InventoryUpdate(eff[i], D_real[i])]]
    /\ pc' = "simulated"
    /\ UNCHANGED <<call, scipy_ok, registry, sims>>

NextEdge == CallAllocate \/ SimulatePeriod

SpecEdge == InitEdge /\ [][NextEdge]_vars

Allocated == call.fn = "allocate" /\ pc \in {"return", "simulated"}

\* the proportional rule decides the call: the policy itself, an unrecognised
\* policy, or an LP policy whose import failed
ProportionalDecides ==
    \/ PolicyBranch(call.policy) = "proportional"
    \/ call.policy \in LPPolicies /\ call.scipy = "missing"

NewSimulator(reg, cfg) ==
    [status |-> "ready",
     cfg |-> cfg,
     rng |-> RngSeed(cfg.seed),
     data |-> Generate(reg, cfg.n_periods, cfg.seed),
     t |-> 0,
     I |-> NoVec,
     p |-> NoVec,
     periods |-> <<>>,
     results |-> <<>>]

\* `for t in range(T)` of run(), from the instance's current period on
RECURSIVE RunLoop(_)
RunLoop(sim) ==
    IF sim.t = sim.cfg.n_periods THEN sim ELSE RunLoop(Period(sim, sim.rng))

\* res = sim.run(): the result of one run of a fresh instance
RunResult(sim) ==
    With(RunLoop([sim EXCEPT !.status = "running",
                             !.I = sim.data.initial_inventory,
                             !.p = sim.data.initial_fraud_prob]),
         LAMBDA done : [periods |-> done.periods, summary |-> Summary(done.periods)])

\* policies = ["proportional", "optimized", "equity_first", "risk_averse"]
PolicyOrder == <<"proportional", "optimized", "equity_first", "risk_averse">>

\* mutant: cfg = base_config, without the copy
AliasThenSetPolicy(base_config, policy) ==
    [cfg |-> [base_config EXCEPT !.policy = policy],
     base_config |-> [base_config EXCEPT !.policy = policy]]

\* cfg = copy.copy(base_config); cfg.policy = policy: the configuration the
\* instance gets, and the caller's object afterwards
CopyThenSetPolicy(base_config, policy) ==
    [cfg |-> [base_config EXCEPT !.policy = policy],
     base_config |-> base_config]

\* comparison[policy] = {...}: the fields taken over from the result
ComparisonEntry(policy, res) ==
    [policy |-> policy,
     avg_service_level |-> res.summary.avg_service_level,
     avg_fraud_prob |-> res.summary.avg_fraud_prob,
     total_leakage_kg |-> res.summary.total_leakage_kg,
     total_stockout_kg |-> res.summary.total_stockout_kg]

\* call.given is the base configuration as the caller handed it over;
\* ret.instances lists the configurations of the simulators built so far.
InitCompare ==
    /\ scipy_ok \in {"available", "missing"}
    /\ registry \in Registries
    /\ sims = NoSims
    /\ \E cfg \in Configs :
          call = [fn |-> "run_policy_comparison", base_config |-> cfg, given |-> cfg]
    /\ ret = [comparison |-> <<>>, instances |-> <<>>]
    /\ pc = "loop"

\* one iteration of `for policy in policies`
ComparePolicy ==
    /\ pc = "loop"
    /\ call.fn = "run_policy_comparison"
    /\ Len(ret.instances) < Len(PolicyOrder)
    /\ LET policy == PolicyOrder[Len(ret.instances) + 1]
           c == CopyThenSetPolicy(call.base_config, policy)
       IN  /\ call' = [call EXCEPT !.base_config = c.base_config]
           /\ ret' = [comparison |->
                         (policy :> ComparisonEntry(policy,
                                        RunResult(NewSimulator(registry, c.cfg))))
                             @@ ret.comparison,
                      instances |-> Append(ret.instances, c.cfg)]
    /\ UNCHANGED <<pc, scipy_ok, registry, sims>>

\* return comparison
ReturnComparison ==
    /\ pc = "loop"
    /\ call.fn = "run_policy_comparison"
    /\ Len(ret.instances) = Len(PolicyOrder)
    /\ pc' = "returned"
    /\ UNCHANGED <<call, ret, scipy_ok, registry, sims>>

NextCompare == ComparePolicy \/ ReturnComparison

SpecCompare == InitCompare /\ [][NextCompare]_vars

Compared == call.fn = "run_policy_comparison" /\ pc = "returned"

\* C18: run_policy_comparison returns exactly one summary for each of the
\* four policies, each produced by its own simulator instance built from a
\* copy of the base configuration that differs only in policy (same seed),
\* and leaves the caller's base configuration unchanged.
C18_PolicyComparison ==
    /\ call.fn = "run_policy_comparison" => call.base_config = call.given
    /\ Compared =>
          /\ DOMAIN ret.comparison = Policies
          /\ Len(ret.instances) = Cardinality(Policies)
          /\ \A k \in 1..Len(ret.instances) :
                LET policy == PolicyOrder[k]
                IN  /\ ret.instances[k] = [call.given EXCEPT !.policy = policy]
                    /\ ret.instances[k].seed = call.given.seed
                    /\ ret.comparison[policy] =
                          ComparisonEntry(policy,
                              RunResult(NewSimulator(registry, ret.instances[k])))

\* a base configuration naming no known policy: four summaries, those of
\* Proportional and Equity-First differ, and the base still names its policy
C18_Witness ==
    /\ Compared
    /\ call.given.policy = "unrecognised"
    /\ call.base_config.policy = "unrecognised"
    /\ DOMAIN ret.comparison = Policies
    /\ ret.comparison["proportional"].total_leakage_kg
          # ret.comparison["equity_first"].total_leakage_kg

\* ------------------------------------------ run() called again
\* result = sim.run() on an instance that has already returned a run.  run()
\* copies the initial vectors again (lines 167-169); self.rng was created in
\* __init__ (line 137) and run() does not touch it before the loop.
RunAgain(s) ==
    /\ sims[s].status = "ready"
    /\ Len(sims[s].results) \in 1..MaxRuns
    /\ NoRunInProgress
    /\ sims' = [sims EXCEPT ![s] =
                  [@ EXCEPT !.status = "running",
                            !.t = 0,
                            !.I = sims[s].data.initial_inventory,
                            !.p = sims[s].data.initial_fraud_prob,
                            !.periods = <<>>]]
    /\ UNCHANGED <<call, ret, pc, scipy_ok, registry>>

InitRerun == Init

NextRerun ==
    \/ ConstructFirst
    \/ StartRun("a")
    \/ RunAgain("a")
    \/ RunPeriod("a")
    \/ FinishRun("a")

SpecRerun == InitRerun /\ [][NextRerun]_vars

\* every call of run() starts from the provider's vectors
RerunStartsFromData ==
    \A s \in Constructed : \A k \in 1..Len(RunsOf(s)) : Len(RunsOf(s)[k]) >= 1 =>
        /\ RunsOf(s)[k][1].inventory_start = sims[s].data.initial_inventory
        /\ RunsOf(s)[k][1].fraud_prob_start = sims[s].data.initial_fraud_prob

\* C30: a later call of run() on the same instance reproduces the first
\* call's period-by-period results: it starts from the provider's initial
\* inventory and fraud vectors and from the same random stream.
C30_RerunReproduces ==
    /\ RerunStartsFromData
    /\ \A s \in Constructed :
          \A k \in 1..Len(RunsOf(s)) : IsPrefix(RunsOf(s)[k], RunsOf(s)[1])

====
